---- MODULE Spec2Model ----
(***************************************************************************)
(* The DealStructure form of src/index.tsx: five currency fields, the      *)
(* focus snapshot they share, the simulated remote save issued on blur and *)
(* the derived Amount Financed.                                            *)
(*                                                                         *)
(* Strings are sequences of one-character strings.  Numbers (the results   *)
(* of parseFloat) are integers counting units of 10^-FracDigits; the raw   *)
(* inputs of the model have at most FracDigits fractional digits and never *)
(* produce an exact half cent, so the binary rounding of toFixed and of    *)
(* toLocaleString coincides with the decimal rounding computed here.       *)
(* A number of at least 10^21, which toFixed writes in exponential         *)
(* notation, is kept as its significant digits and its decimal exponent.   *)
(***************************************************************************)
EXTENDS Integers, Sequences, FiniteSets, TLC

VARIABLES
    fields,           \* useState: key -> {value, isSaving, hasError}
    amountFinanced,   \* useState: the formatted total
    originalValueRef, \* useRef: the one focus snapshot shared by all fields
    inflight,         \* handleBlur invocations suspended at the await, oldest first
    focused,          \* the field owning the browser focus, or NoKey
    lastEvent,        \* history: the handler step that produced this state
    committed,        \* history: key -> value of its last successful commit
    typed,            \* history: value given by the latest onChange since the last focus, or null
    snapshotOnFocus,  \* history: key -> value the field held at its own onFocus, null once it is blurred
    nChanges          \* history: number of onChange events so far

vars == <<fields, amountFinanced, originalValueRef, inflight, focused,
          lastEvent, committed, typed, snapshotOnFocus, nChanges>>

----------------------------------------------------------------------------
(* Bounds of the model *)

MaxChanges == 2

MaxInFlight == 2

FracDigits == 3

MaxLen == 5

----------------------------------------------------------------------------
(* Characters and strings *)

Keys == {"salesPrice", "downPayment", "warranty", "cpi", "gap"}

NoKey == "none"

DigitChars == <<"0", "1", "2", "3", "4", "5", "6", "7", "8", "9">>

IsDigit(c) == \E i \in 1..10 : DigitChars[i] = c

DigitVal(c) == (CHOOSE i \in 1..10 : DigitChars[i] = c) - 1

\* the character class [0-9.] of the regular expressions
IsNumericChar(c) == IsDigit(c) \/ c = "."

RECURSIVE Pow10(_)
Pow10(n) == IF n = 0 THEN 1 ELSE 10 * Pow10(n - 1)

Scale == Pow10(FracDigits)

\* String.prototype.split('.')
RECURSIVE split(_)
split(s) ==
    IF \E i \in 1..Len(s) : s[i] = "."
    THEN LET i == CHOOSE j \in 1..Len(s) :
                      s[j] = "." /\ \A m \in 1..(j - 1) : s[m] # "."
         IN  <<SubSeq(s, 1, i - 1)>> \o split(SubSeq(s, i + 1, Len(s)))
    ELSE <<s>>

\* Array.prototype.join('')
RECURSIVE join(_)
join(parts) == IF parts = <<>> THEN <<>> ELSE Head(parts) \o join(Tail(parts))

parseCurrencyInput(input) ==
    LET numericString == SelectSeq(input, IsNumericChar)
        parts == split(numericString)
    IN  IF Len(parts) > 2
        THEN parts[1] \o <<".">> \o join(Tail(parts))
        ELSE IF Len(parts) = 2 /\ Len(parts[2]) > 2
             THEN parts[1] \o <<".">> \o SubSeq(parts[2], 1, 2)
             ELSE numericString

----------------------------------------------------------------------------
(* Numbers: parseFloat, toFixed, toLocaleString *)

\* length of the longest prefix of s made of digits
RECURSIVE DigitRun(_)
DigitRun(s) ==
    IF s # <<>> /\ IsDigit(Head(s)) THEN 1 + DigitRun(Tail(s)) ELSE 0

\* the natural number a digit string denotes (0 for the empty string)
RECURSIVE DigitsToNat(_)
DigitsToNat(s) ==
    IF s = <<>> THEN 0
    ELSE 10 * DigitsToNat(SubSeq(s, 1, Len(s) - 1)) + DigitVal(s[Len(s)])

\* the digit string of a natural number
RECURSIVE NatToDigits(_)
NatToDigits(n) ==
    IF n < 10 THEN <<DigitChars[n + 1]>>
    ELSE NatToDigits(n \div 10) \o <<DigitChars[(n % 10) + 1]>>

\* a fractional digit run as a count of 10^-FracDigits units
FracUnits(frac) ==
    LET kept == SubSeq(frac, 1, IF Len(frac) < FracDigits THEN Len(frac) ELSE FracDigits)
    IN  DigitsToNat(kept) * Pow10(FracDigits - Len(kept))

\* a digit string without its leading zeros
RECURSIVE StripLeadingZeros(_)
StripLeadingZeros(s) ==
    IF s # <<>> /\ Head(s) = "0" THEN StripLeadingZeros(Tail(s)) ELSE s

\* a digit string without its trailing zeros
RECURSIVE StripTrailingZeros(_)
StripTrailingZeros(s) ==
    IF s # <<>> /\ s[Len(s)] = "0"
    THEN StripTrailingZeros(SubSeq(s, 1, Len(s) - 1)) ELSE s

\* Number.prototype.toFixed and Number::toString write a number of at least
\* 10^21 in exponential notation
ExponentialFrom == 21

\* the ExponentPart at the head of s: e or E, an optional sign, digits
ExponentPart(s) ==
    LET signed == Len(s) > 1 /\ s[2] \in {"+", "-"}
        digits == SubSeq(s, IF signed THEN 3 ELSE 2, Len(s))
        k == DigitRun(digits)
    IN  IF s # <<>> /\ Head(s) \in {"e", "E"} /\ k > 0
        THEN [negative |-> signed /\ s[2] = "-",
              val |-> DigitsToNat(SubSeq(digits, 1, k))]
        ELSE [negative |-> FALSE, val |-> 0]

\* the global parseFloat on a string without sign: the longest prefix
\* digits [. digits] [ExponentPart], NaN when that prefix holds no digit.
\* A number below 10^21 is the count num of 10^-FracDigits units; a number
\* of at least 10^21 is big and kept as its significant digits sig and its
\* decimal exponent exp (its fraction is below the resolution of a double)
parseFloat(s) ==
    LET n == DigitRun(s)
        rest == SubSeq(s, n + 1, Len(s))
        dot == rest # <<>> /\ Head(rest) = "."
        m == IF dot THEN DigitRun(Tail(rest)) ELSE 0
        e == ExponentPart(SubSeq(rest, IF dot THEN m + 2 ELSE 1, Len(rest)))
        int == StripLeadingZeros(SubSeq(s, 1, n))
    IN  IF n = 0 /\ m = 0
        THEN [nan |-> TRUE, big |-> FALSE, num |-> 0, sig |-> <<>>, exp |-> 0]
        ELSE IF ~e.negative /\ int # <<>> /\ Len(int) + e.val > ExponentialFrom
        THEN [nan |-> FALSE, big |-> TRUE, num |-> 0,
              sig |-> StripTrailingZeros(int), exp |-> Len(int) - 1 + e.val]
        ELSE LET units == DigitsToNat(int) * Scale + FracUnits(SubSeq(rest, 2, m + 1))
             IN  [nan |-> FALSE, big |-> FALSE,
                  num |-> IF e.negative THEN units \div Pow10(e.val)
                          ELSE units * Pow10(e.val),
                  sig |-> <<>>, exp |-> 0]

isNaN(x) == x.nan

\* a non-negative number rounded to cents
RoundToCents(x) ==
    LET unit == Scale \div 100
    IN  (x \div unit) + (IF 2 * (x % unit) > unit THEN 1 ELSE 0)

TwoDigits(n) == <<DigitChars[(n \div 10) + 1], DigitChars[(n % 10) + 1]>>

\* Number.prototype.toFixed(2) of a non-negative number
toFixed2(x) ==
    LET cents == RoundToCents(x)
    IN  NatToDigits(cents \div 100) \o <<".">> \o TwoDigits(cents % 100)

\* Number::toString of a number of at least 10^21: d[.ddd]e+n
NumberToString(x) ==
    <<Head(x.sig)>>
    \o (IF Len(x.sig) > 1 THEN <<".">> \o Tail(x.sig) ELSE <<>>)
    \o <<"e", "+">> \o NatToDigits(x.exp)

\* the integer part grouped in threes, as toLocaleString('en-US') does
RECURSIVE Grouped(_)
Grouped(n) ==
    IF n < 1000 THEN NatToDigits(n)
    ELSE Grouped(n \div 1000) \o <<",">>
         \o <<DigitChars[((n \div 100) % 10) + 1]>> \o TwoDigits(n % 100)

\* toLocaleString('en-US', {style: 'currency', currency: 'USD'})
toLocaleString(x) ==
    LET cents == RoundToCents(IF x < 0 THEN -x ELSE x)
    IN  (IF x < 0 THEN <<"-">> ELSE <<>>) \o <<"$">>
        \o Grouped(cents \div 100) \o <<".">> \o TwoDigits(cents % 100)

safeParseFloat(str) ==
    LET num == parseFloat(SelectSeq(str, IsNumericChar))
    IN  IF isNaN(num) THEN 0 ELSE num.num

\* a total that adds the down payment
calculateTotalAddsDownPayment(currentFields) ==
    LET total == safeParseFloat(currentFields["salesPrice"].value)
                 + safeParseFloat(currentFields["downPayment"].value)
                 + safeParseFloat(currentFields["warranty"].value)
                 + safeParseFloat(currentFields["cpi"].value)
                 + safeParseFloat(currentFields["gap"].value)
    IN  toLocaleString(total)

calculateTotal(currentFields) ==
    LET total == safeParseFloat(currentFields["salesPrice"].value)
                 - safeParseFloat(currentFields["downPayment"].value)
                 + safeParseFloat(currentFields["warranty"].value)
                 + safeParseFloat(currentFields["cpi"].value)
                 + safeParseFloat(currentFields["gap"].value)
    IN  toLocaleString(total)

\* (parseFloat(currentValue) || 0).toFixed(2)
FormattedValue(currentValue) ==
    LET x == parseFloat(currentValue)
    IN  IF isNaN(x) THEN toFixed2(0)
        ELSE IF x.big THEN NumberToString(x)
        ELSE toFixed2(x.num)

----------------------------------------------------------------------------
(* The form *)

MinSalesPrice == 10000

InitialFields ==
    [k \in Keys |->
        [value |-> CASE k = "salesPrice" -> <<"2", "7", "5", "3", "7", ".", "0", "0">>
                     [] k = "downPayment" -> <<"2", "5", "0", "0", ".", "0", "0">>
                     [] OTHER -> <<"0", ".", "0", "0">>,
         isSaving |-> FALSE,
         hasError |-> FALSE]]

\* useRef(null)
null == <<"null">>

\* e.target.value: the texts typed into a field
RawInputs ==
    { <<"9", "9", "9", "9">>,
      <<"$", "1", "2", ",", "0", "0", "0">>,
      <<"1", ".", "2", ".", "3", "9">>,
      <<>> }

Event(type, key, arg, before) ==
    [type |-> type, key |-> key, arg |-> arg, before |-> before]

NoField == [value |-> <<>>, isSaving |-> FALSE, hasError |-> FALSE]

Init ==
    /\ fields = InitialFields
    /\ amountFinanced = calculateTotal(InitialFields)
    /\ originalValueRef = null
    /\ inflight = <<>>
    /\ focused = NoKey
    /\ lastEvent = Event("create", NoKey, <<>>, NoField)
    /\ committed = [k \in Keys |-> InitialFields[k].value]
    /\ typed = null
    /\ snapshotOnFocus = [k \in Keys |-> null]
    /\ nChanges = 0

\* a snapshot always taken from the first field
FocusSnapshotOfSalesPrice(currentFields, key) == currentFields["salesPrice"].value

\* fields[key].value
FocusSnapshot(currentFields, key) == currentFields[key].value

\* the browser gives the focus to one input at a time
handleFocus(key) ==
    /\ focused = NoKey
    /\ originalValueRef' = FocusSnapshot(fields, key)
    /\ focused' = key
    /\ lastEvent' = Event("onFocus", key, <<>>, fields[key])
    /\ typed' = null
    /\ snapshotOnFocus' = [snapshotOnFocus EXCEPT ![key] = fields[key].value]
    /\ UNCHANGED <<fields, amountFinanced, inflight, committed, nChanges>>

\* an edit that stores the value and leaves the error flag
ChangedFieldKeepsError(f, newValue) == [f EXCEPT !.value = newValue]

\* { ...prev[key], value: newValue, hasError: false }
ChangedField(f, newValue) == [f EXCEPT !.value = newValue, !.hasError = FALSE]

handleFieldChange(key, raw) ==
    LET newValue == parseCurrencyInput(raw)
    IN  /\ focused = key
        /\ fields' = [fields EXCEPT ![key] = ChangedField(@, newValue)]
        /\ nChanges' = nChanges + 1
        /\ lastEvent' = Event("onChange", key, raw, fields[key])
        /\ typed' = newValue
        /\ UNCHANGED <<amountFinanced, originalValueRef, inflight, focused,
                       committed, snapshotOnFocus>>

\* a comparison that never finds the value unchanged
UnchangedNever(formattedValue, original) == FALSE

\* formattedValue === originalValueRef.current
Unchanged(formattedValue, original) == formattedValue = original

\* a blur that stores the formatted value without marking the field Saving
SavingFieldNotSaving(f, formattedValue) ==
    [f EXCEPT !.value = formattedValue, !.hasError = FALSE]

\* { ...prev[key], value: formattedValue, isSaving: true, hasError: false }
SavingField(f, formattedValue) ==
    [f EXCEPT !.value = formattedValue, !.isSaving = TRUE, !.hasError = FALSE]

\* handleBlur up to its return or its await
handleBlur(key) ==
    LET currentValue == fields[key].value
        formattedValue == FormattedValue(currentValue)
    IN  /\ focused = key
        /\ focused' = NoKey
        /\ IF Unchanged(formattedValue, originalValueRef)
           THEN /\ fields' = IF currentValue # formattedValue
                             THEN [fields EXCEPT ![key].value = formattedValue]
                             ELSE fields
                /\ inflight' = inflight
                /\ lastEvent' = Event("onBlurNoop", key, formattedValue, fields[key])
           ELSE /\ Len(inflight) < MaxInFlight
                /\ fields' = [fields EXCEPT ![key] = SavingField(@, formattedValue)]
                /\ inflight' = Append(inflight,
                                      [key |-> key, formattedValue |-> formattedValue])
                /\ lastEvent' = Event("onBlurCommit", key, formattedValue, fields[key])
        /\ snapshotOnFocus' = [snapshotOnFocus EXCEPT ![key] = null]
        /\ UNCHANGED <<amountFinanced, originalValueRef, committed, typed, nChanges>>

\* the minimum applied to every field
SaveRejectsAnyField(key, formattedValue) ==
    LET numericValue == parseFloat(formattedValue)
    IN  \/ isNaN(numericValue)
        \/ ~numericValue.big /\ numericValue.num < MinSalesPrice * Scale

\* the two throws of the try block
SaveRejects(key, formattedValue) ==
    LET numericValue == parseFloat(formattedValue)
    IN  \/ isNaN(numericValue)
        \/ /\ key = "salesPrice"
           /\ ~numericValue.big
           /\ numericValue.num < MinSalesPrice * Scale

\* a success that leaves the saving flag set
SavedFieldStillSaving(f) == [f EXCEPT !.hasError = FALSE]

\* { ...currentFields[key], isSaving: false, hasError: false }
SavedField(f) == [f EXCEPT !.isSaving = FALSE, !.hasError = FALSE]

\* a failure that flags the field and leaves its value
FailedFieldKeepsValue(f, formattedValue) ==
    [f EXCEPT !.isSaving = FALSE, !.hasError = TRUE]

\* a failure that leaves the field Saving
FailedFieldStillSaving(f, formattedValue) ==
    [f EXCEPT !.value = formattedValue, !.hasError = TRUE]

\* { ...prev[key], value: formattedValue, isSaving: false, hasError: true }
FailedField(f, formattedValue) ==
    [f EXCEPT !.value = formattedValue, !.isSaving = FALSE, !.hasError = TRUE]

\* the timers all wait 1500 ms: the oldest suspended handleBlur resumes first
CommitSuccess ==
    /\ inflight # <<>>
    /\ LET key == Head(inflight).key
           formattedValue == Head(inflight).formattedValue
           updatedFields == [fields EXCEPT ![key] = SavedField(@)]
       IN  /\ ~SaveRejects(key, formattedValue)
           /\ fields' = updatedFields
           /\ amountFinanced' = calculateTotal(updatedFields)
           /\ committed' = [committed EXCEPT ![key] = formattedValue]
           /\ lastEvent' = Event("commitSuccess", key, formattedValue, fields[key])
    /\ inflight' = Tail(inflight)
    /\ UNCHANGED <<originalValueRef, focused, typed, snapshotOnFocus, nChanges>>

\* a failure that flags every field of the form
CommitFailureFlagsForm ==
    /\ inflight # <<>>
    /\ LET key == Head(inflight).key
           formattedValue == Head(inflight).formattedValue
       IN  /\ SaveRejects(key, formattedValue)
           /\ fields' = [k \in Keys |->
                            IF k = key THEN FailedField(fields[k], formattedValue)
                            ELSE [fields[k] EXCEPT !.hasError = TRUE]]
           /\ lastEvent' = Event("commitFailure", key, formattedValue, fields[key])
    /\ inflight' = Tail(inflight)
    /\ UNCHANGED <<amountFinanced, originalValueRef, focused, committed, typed,
                   snapshotOnFocus, nChanges>>

\* a failure that republishes the total
CommitFailureRecomputes ==
    /\ inflight # <<>>
    /\ LET key == Head(inflight).key
           formattedValue == Head(inflight).formattedValue
           updatedFields == [fields EXCEPT ![key] = FailedField(@, formattedValue)]
       IN  /\ SaveRejects(key, formattedValue)
           /\ fields' = updatedFields
           /\ amountFinanced' = calculateTotal(updatedFields)
           /\ lastEvent' = Event("commitFailure", key, formattedValue, fields[key])
    /\ inflight' = Tail(inflight)
    /\ UNCHANGED <<originalValueRef, focused, committed, typed, snapshotOnFocus, nChanges>>

CommitFailure ==
    /\ inflight # <<>>
    /\ LET key == Head(inflight).key
           formattedValue == Head(inflight).formattedValue
       IN  /\ SaveRejects(key, formattedValue)
           /\ fields' = [fields EXCEPT ![key] = FailedField(@, formattedValue)]
           /\ lastEvent' = Event("commitFailure", key, formattedValue, fields[key])
    /\ inflight' = Tail(inflight)
    /\ UNCHANGED <<amountFinanced, originalValueRef, focused, committed, typed,
                   snapshotOnFocus, nChanges>>

\* the state updates of a resumed handleBlur, applied to a state of the form:
\* the catch branch after a throw, the success updater otherwise
Completed(form, commit) ==
    IF SaveRejects(commit.key, commit.formattedValue)
    THEN [fields |-> [form.fields EXCEPT
                         ![commit.key] = FailedField(@, commit.formattedValue)],
          amountFinanced |-> form.amountFinanced]
    ELSE LET updatedFields == [form.fields EXCEPT ![commit.key] = SavedField(@)]
         IN  [fields |-> updatedFields,
              amountFinanced |-> calculateTotal(updatedFields)]

Next ==
    \/ \E key \in Keys : handleFocus(key)
    \/ \E key \in Keys, raw \in RawInputs :
          nChanges < MaxChanges /\ handleFieldChange(key, raw)
    \/ \E key \in Keys : handleBlur(key)
    \/ CommitSuccess
    \/ CommitFailure

Spec == Init /\ [][Next]_vars

\* the timer of the oldest suspended handleBlur fires and its await returns
TimerFires == inflight # <<>> /\ inflight' = Tail(inflight)

\* every timer of setTimeout(resolve, 1500) fires
FairSpec == Spec /\ WF_inflight(TimerFires)

----------------------------------------------------------------------------
(* parseCurrencyInput on every text over Alphabet of at most MaxLen          *)
(* characters: one onChange on a freshly created form                        *)

Alphabet == {"0", "7", ".", ","}

Texts == UNION {[1..n -> Alphabet] : n \in 0..MaxLen}

NextSanitize ==
    \/ \E key \in Keys : nChanges = 0 /\ handleFocus(key)
    \/ \E key \in Keys, raw \in Texts : nChanges = 0 /\ handleFieldChange(key, raw)

SpecSanitize == Init /\ [][NextSanitize]_vars

----------------------------------------------------------------------------
(* The form with a number of 22 digits among the typed texts.  The wide      *)
(* number is typed while no save is pending, so that it is formatted by the  *)
(* blur before any total is computed                                         *)

\* 1000000000000000000000, the least number written in exponential notation
Huge == <<"1">> \o [i \in 1..ExponentialFrom |-> "0"]

WideInputs == {Huge, <<"9", "9", "9", "9">>}

NextWide ==
    \/ \E key \in Keys : handleFocus(key)
    \/ \E key \in Keys, raw \in WideInputs :
          /\ nChanges < MaxChanges
          /\ raw = Huge => inflight = <<>>
          /\ handleFieldChange(key, raw)
    \/ \E key \in Keys : handleBlur(key)
    \/ CommitSuccess
    \/ CommitFailure

SpecWide == Init /\ [][NextWide]_vars

----------------------------------------------------------------------------
(* The form with one more edit and two typed texts: a rejected and an        *)
(* accepted Sales Price                                                      *)

MaxOrderChanges == 3

OrderInputs == {<<"9", "9", "9", "9">>, <<"$", "1", "2", ",", "0", "0", "0">>}

NextOrder ==
    \/ \E key \in Keys : handleFocus(key)
    \/ \E key \in Keys, raw \in OrderInputs :
          nChanges < MaxOrderChanges /\ handleFieldChange(key, raw)
    \/ \E key \in Keys : handleBlur(key)
    \/ CommitSuccess
    \/ CommitFailure

SpecOrder == Init /\ [][NextOrder]_vars

----------------------------------------------------------------------------
(* Claims *)

InFlightFor(key) == {i \in 1..Len(inflight) : inflight[i].key = key}

IsBlur(e) == e.type \in {"onBlurNoop", "onBlurCommit"}

InitialTotal == <<"$", "2", "5", ",", "0", "3", "7", ".", "0", "0">>

Rejected9999 == <<"9", "9", "9", "9", ".", "0", "0">>

\* C1: in every reachable state each field has at most one commit in flight.
C1_OneCommitPerField ==
    \A key \in Keys : Cardinality(InFlightFor(key)) <= 1

\* C2: in the state a successful commit leaves, where amountFinanced has just
\* been recomputed from the fields' values, the value taken from a field that
\* is Saving or in Error is the value of that field's last successful commit.
C2_TotalFromCommittedValues ==
    lastEvent.type = "commitSuccess" =>
        \A key \in Keys :
            (fields[key].isSaving \/ fields[key].hasError) =>
                fields[key].value = committed[key]

\* C3: right after a commit fails, its field holds the formatted value the
\* commit attempted, with hasError true and isSaving false.
C3_FailureKeepsAttempt ==
    lastEvent.type = "commitFailure" =>
        fields[lastEvent.key] =
            [value |-> lastEvent.arg, isSaving |-> FALSE, hasError |-> TRUE]

\* C3 witness: Sales Price 9999 was rejected while the focus snapshot is still
\* the initial 27537.00; the field shows 9999.00 with the error flag.
C3_Witness ==
    /\ lastEvent = Event("commitFailure", "salesPrice", Rejected9999,
                         [value |-> Rejected9999, isSaving |-> TRUE, hasError |-> FALSE])
    /\ originalValueRef = InitialFields["salesPrice"].value
    /\ fields["salesPrice"].value = Rejected9999
    /\ fields["salesPrice"].hasError

\* no onChange since the focus, or a retype formatting to the focus snapshot
NoNumericChange == typed = null \/ FormattedValue(typed) = originalValueRef

\* C4 as stated: a blur after a focus with no onChange that changes the numeric
\* value issues no save and leaves the field Idle.
C4_NoopBlurEndsIdle ==
    (IsBlur(lastEvent) /\ NoNumericChange) =>
        /\ lastEvent.type = "onBlurNoop"
        /\ ~fields[lastEvent.key].isSaving
        /\ ~fields[lastEvent.key].hasError

\* C4 amended: a blur of a field whose value formats to the focus snapshot
\* issues no save, stores the formatted value and leaves isSaving and hasError
\* as they were.
C4_NoopBlurKeepsStatus ==
    [][\A key \in Keys :
          (focused = key /\ focused' = NoKey
           /\ FormattedValue(fields[key].value) = originalValueRef) =>
              /\ inflight' = inflight
              /\ fields' = [fields EXCEPT ![key].value = originalValueRef]
      ]_vars

\* C4 witness: a field in Error was focused and blurred without an edit; no
\* save is in flight and the error flag is still set.
C4_Witness ==
    /\ lastEvent.type = "onBlurNoop"
    /\ typed = null
    /\ lastEvent.before.hasError
    /\ fields[lastEvent.key].hasError
    /\ inflight = <<>>

\* C5: every onChange leaves its field with hasError false.
C5_ChangeClearsError ==
    lastEvent.type = "onChange" => ~fields[lastEvent.key].hasError

\* C5 witness: an onChange on a field that was in Error.
C5_Witness ==
    /\ lastEvent.type = "onChange"
    /\ lastEvent.before.hasError
    /\ ~fields[lastEvent.key].hasError

\* C6: at creation and right after each successful commit amountFinanced is
\* salesPrice - downPayment + warranty + cpi + gap over the fields' current
\* values, formatted as currency; at creation it is $25,037.00.
C6_TotalFormula ==
    /\ lastEvent.type \in {"create", "commitSuccess"} =>
           amountFinanced =
               toLocaleString(safeParseFloat(fields["salesPrice"].value)
                              - safeParseFloat(fields["downPayment"].value)
                              + safeParseFloat(fields["warranty"].value)
                              + safeParseFloat(fields["cpi"].value)
                              + safeParseFloat(fields["gap"].value))
    /\ lastEvent.type = "create" => amountFinanced = InitialTotal

\* C6 witness: a successful commit has published a total other than the
\* initial one.
C6_Witness ==
    /\ lastEvent.type = "commitSuccess"
    /\ amountFinanced # InitialTotal

BelowMinimum(formattedValue) ==
    LET numericValue == parseFloat(formattedValue)
    IN  ~numericValue.big /\ numericValue.num < MinSalesPrice * Scale

\* C7: a commit fails exactly when its field is salesPrice and the attempted
\* value is below 10,000; the other four fields never have hasError.
C7_OnlyLowSalesPriceFails ==
    /\ lastEvent.type = "commitFailure" =>
           lastEvent.key = "salesPrice" /\ BelowMinimum(lastEvent.arg)
    /\ lastEvent.type = "commitSuccess" =>
           ~(lastEvent.key = "salesPrice" /\ BelowMinimum(lastEvent.arg))
    /\ \A key \in Keys \ {"salesPrice"} : ~fields[key].hasError

\* C7 witness: a commit of a value below 10,000 on another field succeeded.
C7_Witness ==
    /\ lastEvent.type = "commitSuccess"
    /\ lastEvent.key # "salesPrice"
    /\ BelowMinimum(lastEvent.arg)
    /\ ~fields[lastEvent.key].hasError

\* C8: amountFinanced changes only in the step of a successful commit.
C8_TotalChangesOnlyOnSuccess ==
    [][amountFinanced' # amountFinanced =>
          /\ lastEvent'.type = "commitSuccess"
          /\ inflight # <<>>
          /\ inflight' = Tail(inflight)
          /\ ~SaveRejects(Head(inflight).key, Head(inflight).formattedValue)
      ]_vars

\* C8 witness: the Sales Price save of 9999.00 was rejected and amountFinanced
\* is still the pre-edit total.
C8_Witness ==
    /\ lastEvent.type = "commitFailure"
    /\ lastEvent.key = "salesPrice"
    /\ fields["salesPrice"].value = Rejected9999
    /\ nChanges = 1
    /\ amountFinanced = InitialTotal

\* C9: parseCurrencyInput is idempotent on every typed text.
C9_SanitizeIdempotent ==
    lastEvent.type = "onChange" =>
        parseCurrencyInput(parseCurrencyInput(lastEvent.arg))
            = parseCurrencyInput(lastEvent.arg)

DotCount(s) == Cardinality({i \in 1..Len(s) : s[i] = "."})

\* number of characters after the first "." of s (0 when s has none)
AfterDot(s) ==
    IF DotCount(s) = 0 THEN 0
    ELSE Len(s) - (CHOOSE i \in 1..Len(s) :
                       s[i] = "." /\ \A j \in 1..(i - 1) : s[j] # ".")

\* C10: the output of parseCurrencyInput has at most one "." and at most two
\* digits after it.
C10_SanitizeShape ==
    lastEvent.type = "onChange" =>
        LET out == parseCurrencyInput(lastEvent.arg)
        IN  DotCount(out) <= 1 /\ AfterDot(out) <= 2

Busy(key) == fields[key].isSaving \/ fields[key].hasError

\* C11: a commit completion changes no field but its own, and while another
\* field is Saving or in Error every onFocus, onChange and onBlur of a field
\* has its whole effect: the focus takes its snapshot, the change stores the
\* sanitized text and clears the error, the blur stores the formatted value
\* and either finds it unchanged or issues its commit.
C11_NoCrossFieldEffect ==
    [][/\ (inflight # <<>> /\ inflight' = Tail(inflight)) =>
              \A other \in Keys \ {Head(inflight).key} : fields'[other] = fields[other]
       /\ \A key \in Keys :
             (\E other \in Keys \ {key} : Busy(other)) =>
                 /\ (focused = NoKey /\ focused' = key) =>
                        /\ originalValueRef' = fields[key].value
                        /\ fields' = fields
                 /\ (focused = key /\ nChanges' # nChanges) =>
                        fields' = [fields EXCEPT ![key] =
                                      [value |-> parseCurrencyInput(lastEvent'.arg),
                                       isSaving |-> fields[key].isSaving,
                                       hasError |-> FALSE]]
                 /\ (focused = key /\ focused' = NoKey) =>
                        LET formattedValue == FormattedValue(fields[key].value)
                        IN  /\ fields'[key].value = formattedValue
                            /\ \A other \in Keys \ {key} : fields'[other] = fields[other]
                            /\ inflight' = IF formattedValue = originalValueRef
                                           THEN inflight
                                           ELSE Append(inflight,
                                                  [key |-> key,
                                                   formattedValue |-> formattedValue])
      ]_vars

\* C11 witness: the Sales Price save was rejected while another field is
\* Saving; that field is untouched and has no error.
C11_Witness ==
    /\ lastEvent.type = "commitFailure"
    /\ fields[lastEvent.key].hasError
    /\ \E other \in Keys \ {lastEvent.key} :
           /\ fields[other].isSaving
           /\ ~fields[other].hasError
           /\ InFlightFor(other) # {}

\* C12: in every reachable state every field's value holds only the
\* characters 0-9 and '.', and at most one '.'.
C12_ValueCharacters ==
    \A key \in Keys :
        /\ \A i \in 1..Len(fields[key].value) : IsNumericChar(fields[key].value[i])
        /\ DotCount(fields[key].value) <= 1

\* C13: a field with isSaving true has a commit in flight.
C13_SavingHasCommitInFlight ==
    \A key \in Keys : fields[key].isSaving => InFlightFor(key) # {}

\* C13 witness: a blur has just issued the only commit of a field, which is
\* Saving.
C13_Witness ==
    /\ lastEvent.type = "onBlurCommit"
    /\ fields[lastEvent.key].isSaving
    /\ Cardinality(InFlightFor(lastEvent.key)) = 1

\* a step that is an onChange of the field
IsChangeOf(key) == nChanges' # nChanges /\ lastEvent'.key = key

\* C14: a field in Error keeps hasError and its rejected value through
\* every step that is not an onChange of that field.
C14_ErrorUntilEdit ==
    [][\A key \in Keys :
          (fields[key].hasError /\ ~IsChangeOf(key)) =>
              /\ fields'[key].hasError
              /\ fields'[key].value = fields[key].value]_vars

\* C15: an onBlur whose formatted value differs from the focus-time snapshot
\* sets the field's value to the formatted value, sets isSaving, clears
\* hasError, and issues exactly one commit carrying that formatted value and
\* the field's key.
C15_ChangedBlurIssuesCommit ==
    [][\A key \in Keys :
          LET formattedValue == FormattedValue(fields[key].value)
          IN  (focused = key /\ focused' = NoKey
               /\ formattedValue # originalValueRef) =>
                  /\ fields'[key] = [value |-> formattedValue,
                                     isSaving |-> TRUE,
                                     hasError |-> FALSE]
                  /\ inflight' = Append(inflight,
                                        [key |-> key,
                                         formattedValue |-> formattedValue])]_vars

\* C15 witness: a field in Error whose value differs from the snapshot has
\* been blurred: it is Saving without error and its commit is the newest.
C15_Witness ==
    /\ lastEvent.type = "onBlurCommit"
    /\ lastEvent.before.hasError
    /\ originalValueRef # lastEvent.arg
    /\ fields[lastEvent.key] = [value |-> lastEvent.arg,
                                isSaving |-> TRUE,
                                hasError |-> FALSE]
    /\ inflight[Len(inflight)] = [key |-> lastEvent.key,
                                  formattedValue |-> lastEvent.arg]

\* the values a commit of the form can carry
CommitValues == {FormattedValue(parseCurrencyInput(raw)) : raw \in RawInputs}

\* C16: when every timer fires, the oldest commit in flight completes with
\* success or failure (so each commit completes in its turn), and every
\* field with isSaving true comes to have isSaving false.
C16_CommitsComplete ==
    /\ \A key \in Keys : \A formattedValue \in CommitValues :
          (inflight # <<>>
           /\ Head(inflight) = [key |-> key, formattedValue |-> formattedValue])
          ~> (/\ lastEvent.type \in {"commitSuccess", "commitFailure"}
              /\ lastEvent.key = key
              /\ lastEvent.arg = formattedValue)
    /\ \A key \in Keys : fields[key].isSaving ~> ~fields[key].isSaving

\* C16 witness: the last commit in flight has completed with a failure and
\* its field, Saving until then, is no longer Saving.
C16_Witness ==
    /\ lastEvent.type = "commitFailure"
    /\ lastEvent.before.isSaving
    /\ ~fields[lastEvent.key].isSaving
    /\ inflight = <<>>

C18_LowSalesPriceNeverAccepted ==
    (/\ focused # "salesPrice"
     /\ ~fields["salesPrice"].isSaving
     /\ ~fields["salesPrice"].hasError) =>
        ~BelowMinimum(fields["salesPrice"].value)

\* C19: the completion of a commit of a field that the user has edited since
\* (the field is focused and holds a typed text) leaves the field's value
\* equal to that latest input and leaves hasError as the edit set it.
C19_CompletionKeepsNewerInput ==
    [][(/\ inflight # <<>>
        /\ inflight' = Tail(inflight)
        /\ focused = Head(inflight).key
        /\ typed # null) =>
            /\ fields'[focused].value = typed
            /\ fields'[focused].hasError = fields[focused].hasError]_vars

\* C20: while a field is focused, and so at its onBlur, the shared snapshot
\* is the value that same field held at its own most recent onFocus.
C20_SharedSnapshotIsPerField ==
    \A key \in Keys : focused = key => originalValueRef = snapshotOnFocus[key]

\* C20 witness: a field focused after another one was blurred has been
\* edited, and the other field's commit has completed in between.
C20_Witness ==
    /\ focused # NoKey
    /\ lastEvent.type = "commitSuccess"
    /\ lastEvent.key # focused
    /\ typed # null
    /\ originalValueRef = snapshotOnFocus[focused]
    /\ originalValueRef # fields[lastEvent.key].value

====
